---- MODULE Spec2Model ----
(***************************************************************************)
(* Model of consumers/project_consumer_seabaugh.py: a Kafka consumer that  *)
(* keeps four module-level trackers (author_counts, sentiment_counts,      *)
(* message_timestamps, keyword_counts) and redraws a chart after each      *)
(* tracker update, all inside process_message's try/except.                *)
(*                                                                         *)
(* Text is a sequence of one-character strings.  A compound score is the   *)
(* classifier's 4-decimal value times 10000 (0.05 is 500).  A timestamp is *)
(* whole seconds since the epoch, local time taken as UTC.                 *)
(***************************************************************************)
EXTENDS Integers, Sequences, FiniteSets, TLC

VARIABLES
    pc,                    \* position in main / process_message
    message,               \* the message being processed
    author_counts,         \* defaultdict(int): author -> count
    sentiment_counts,      \* Counter: label -> count
    message_timestamps,    \* deque(maxlen=100) of arrival timestamps
    keyword_counts,        \* Counter: keyword -> count
    now,                   \* the value the next time.time() returns
    period,                \* seconds between two arrivals (environment)
    delivered,             \* messages taken from the consumer so far
    returned,              \* process_message calls that returned normally
    carried,               \* history: author -> records delivered with it
    records,               \* history: well-formed (dict) records delivered
    empty_texts,           \* history: delivered records whose text is empty
    arrivals,              \* history: every timestamp ever appended
    scans,                 \* history: completed keyword scans
    fault_free,            \* history: no step has raised so far
    cur_applied,           \* trackers already updated for the current record
    cur_classifier_failed, \* the classifier raised on the current record
    cur_label,             \* label tallied for the current record, or "none"
    cur_score,             \* compound score of the current record
    exit_reason            \* why main left its loop, or "none"

vars == <<pc, message, author_counts, sentiment_counts, message_timestamps,
          keyword_counts, now, period, delivered, returned, carried, records,
          empty_texts, arrivals, scans, fault_free, cur_applied,
          cur_classifier_failed, cur_label, cur_score, exit_reason>>

(***************************************************************************)
(* Bounds of the model.                                                    *)
(***************************************************************************)
MaxMsgs == 2        \* messages the consumer delivers (Spec)
MaxAppends == 102   \* volume updates (SpecVolume)
MaxPieces == 3      \* pieces a scanned text is built from (SpecKeywords)
MaxScans == 2       \* keyword scans (SpecKeywords)
MaxScores == 2      \* sentiment classifications (SpecSentiment)

(***************************************************************************)
(* Generic helpers.                                                        *)
(***************************************************************************)
RECURSIVE SumOver(_, _)
SumOver(f, S) ==
    IF S = {} THEN 0
    ELSE LET x == CHOOSE y \in S : TRUE IN f[x] + SumOver(f, S \ {x})

Total(f) == SumOver(f, DOMAIN f)

Min(a, b) == IF a <= b THEN a ELSE b

RECURSIVE Cat(_)
Cat(pieces) == IF pieces = <<>> THEN <<>> ELSE Head(pieces) \o Cat(Tail(pieces))

RECURSIVE SeqsUpTo(_, _)
SeqsUpTo(S, n) ==
    IF n = 0 THEN {<<>>}
    ELSE LET shorter == SeqsUpTo(S, n - 1)
         IN shorter \cup {Append(s, x) : s \in shorter, x \in S}

(***************************************************************************)
(* Characters: what re's \w, \b and IGNORECASE see.                        *)
(***************************************************************************)
UpperCase == <<"A","B","C","D","E","F","G","H","I","J","K","L","M",
               "N","O","P","Q","R","S","T","U","V","W","X","Y","Z">>
LowerCase == <<"a","b","c","d","e","f","g","h","i","j","k","l","m",
               "n","o","p","q","r","s","t","u","v","w","x","y","z">>
Digits == {"0","1","2","3","4","5","6","7","8","9"}

Range(s) == {s[i] : i \in DOMAIN s}

FoldMap ==
    [c \in Range(UpperCase) |->
        LowerCase[CHOOSE i \in DOMAIN UpperCase : UpperCase[i] = c]]

\* re.IGNORECASE compares characters after case folding
Lower(c) == IF c \in DOMAIN FoldMap THEN FoldMap[c] ELSE c

WordChars == Range(UpperCase) \cup Range(LowerCase) \cup Digits \cup {"_"}

\* \w : letters, digits and the underscore
IsWordChar(c) == c \in WordChars

\* is the character at index i of text a word character (none outside the text)
IsWordAt(text, i) == i \in DOMAIN text /\ IsWordChar(text[i])

\* \b before index i: exactly one of text[i-1], text[i] is a word character
WordBoundary(text, i) == IsWordAt(text, i - 1) # IsWordAt(text, i)

(***************************************************************************)
(* Messages.  A well-formed message is a dict that may lack either key; a  *)
(* message that is not a dict has no .get and faults at field extraction.  *)
(***************************************************************************)
W_Kafka == <<"K","a","f","k","a">>
W_Python == <<"P","y","t","h","o","n">>
W_JSON == <<"J","S","O","N">>
W_Pythonic == W_Python \o <<"i","c">>

\* "I love Kafka and Python"
LoveKafkaPython ==
    Cat(<< <<"I"," ","l","o","v","e"," ">>, W_Kafka,
           <<" ","a","n","d"," ">>, W_Python >>)

Authors == {"Eve", "Bob"}
MainTexts == {<<>>, LoveKafkaPython}

NotADict == [is_dict |-> FALSE, keys |-> {}, author |-> "", message |-> <<>>]

Dicts ==
    {[is_dict |-> TRUE, keys |-> K,
      author |-> IF "author" \in K THEN a ELSE "",
      message |-> IF "message" \in K THEN t ELSE <<>>] :
        K \in SUBSET {"author", "message"}, a \in Authors, t \in MainTexts}

Messages == Dicts \cup {NotADict}

\* dict.get(key, default)
get(m, key, default) == IF key \in m.keys THEN m[key] ELSE default

\* defaultdict(int): d[k] += 1 creates the entry at 0 first
increment_overwrite(d, k) == IF k \in DOMAIN d THEN [d EXCEPT ![k] = 1] ELSE d @@ (k :> 1)

increment(d, k) == IF k \in DOMAIN d THEN [d EXCEPT ![k] = @ + 1] ELSE d @@ (k :> 1)

\* author = message.get("author", "unknown")
get_author(m) == get(m, "author", "unknown")

\* message_text = message.get("message", "")
get_message_text(m) == get(m, "message", <<>>)

(***************************************************************************)
(* Sentiment.                                                              *)
(***************************************************************************)
Labels == {"Positive", "Neutral", "Negative"}

\* every compound score VADER can return: -1.0000 .. 1.0000
CompoundScores == -10000 .. 10000

\* scores the consumer loop is run with, one per side of each threshold
ScoreSamples == {-500, 0, 500}

\* sia.polarity_scores(text)["compound"]: a score, or the call raises;
\* text without any token scores 0.0
polarity_scores(text) ==
    {[ok |-> FALSE, score |-> 0]} \cup
    {[ok |-> TRUE, score |-> s] : s \in IF text = <<>> THEN {0} ELSE ScoreSamples}

analyze_sentiment_strict(score) ==
    IF score > 500 THEN "Positive"
    ELSE IF score < -500 THEN "Negative"
    ELSE "Neutral"

analyze_sentiment(score) ==
    IF score >= 500 THEN "Positive"
    ELSE IF score <= -500 THEN "Negative"
    ELSE "Neutral"

(***************************************************************************)
(* Message volume.                                                         *)
(***************************************************************************)
maxlen == 100

StartTimes == {59, 86390}      \* 00:00:59 and 23:59:50
Periods == {1, 20, 60, 86400}  \* a second, twenty seconds, a minute, a day

deque_append_unbounded(dq, x) == Append(dq, x)

\* deque(maxlen=100).append: a full deque drops its oldest element
deque_append(dq, x) ==
    IF Len(dq) = maxlen THEN Append(Tail(dq), x) ELSE Append(dq, x)

\* datetime.fromtimestamp(ts).strftime('%H:%M'), as <<hour, minute>>
strftime_HM(ts) == <<(ts \div 3600) % 24, (ts \div 60) % 60>>

\* order of two zero-padded 'HH:MM' strings
KeyLess(a, b) == a[1] < b[1] \/ (a[1] = b[1] /\ a[2] < b[2])

RECURSIVE sorted(_)
sorted(S) ==
    IF S = {} THEN <<>>
    ELSE LET least == CHOOSE k \in S : \A other \in S \ {k} : KeyLess(k, other)
         IN <<least>> \o sorted(S \ {least})

\* the points update_message_volume plots: (sorted_times[i], sorted_counts[i])
update_message_volume(timestamps) ==
    LET times == [i \in DOMAIN timestamps |-> strftime_HM(timestamps[i])]
        time_counts == [k \in Range(times) |->
                           Cardinality({i \in DOMAIN times : times[i] = k})]
        sorted_times == sorted(DOMAIN time_counts)
    IN [i \in DOMAIN sorted_times |->
           [bucketKey |-> sorted_times[i], count |-> time_counts[sorted_times[i]]]]

(***************************************************************************)
(* Keywords.                                                               *)
(***************************************************************************)
keywords == <<W_Kafka, W_Python, W_JSON>>

\* the pattern matches text at index i, ignoring case
MatchesAt(keyword, text, i) ==
    /\ i + Len(keyword) - 1 <= Len(text)
    /\ \A j \in DOMAIN keyword : Lower(text[i + j - 1]) = Lower(keyword[j])

re_search_substring(keyword, text) ==
    \E i \in DOMAIN text : MatchesAt(keyword, text, i)

\* re.search(rf"\b{keyword}\b", message_text, re.IGNORECASE)
re_search(keyword, text) ==
    \E i \in DOMAIN text :
        /\ WordBoundary(text, i)
        /\ MatchesAt(keyword, text, i)
        /\ WordBoundary(text, i + Len(keyword))

\* the loop of process_keywords
process_keywords(counts, text) ==
    [kw \in DOMAIN counts |-> counts[kw] + IF re_search(kw, text) THEN 1 ELSE 0]

\* sentiment_counts[analyze_sentiment(text)] += 1
process_sentiment(counts, score) == increment(counts, analyze_sentiment(score))

(***************************************************************************)
(* process_message: the order of its steps, and its except clause.         *)
(***************************************************************************)
process_message_next_volume_first(step) ==
    CASE step = "author_counts" -> "update_chart"
      [] step = "update_chart" -> "process_message_volume"
      [] step = "process_message_volume" -> "process_sentiment"
      [] step = "process_sentiment" -> "process_keywords"
      [] step = "process_keywords" -> "return"

\* the step process_message takes after `step` has completed
process_message_next(step) ==
    CASE step = "author_counts" -> "update_chart"
      [] step = "update_chart" -> "process_sentiment"
      [] step = "process_sentiment" -> "process_message_volume"
      [] step = "process_message_volume" -> "process_keywords"
      [] step = "process_keywords" -> "return"

process_message_reraise == "propagate"

\* except Exception as e: logger.error(...) ; the function then returns
process_message_except == "return"

NoMessage == [is_dict |-> FALSE, keys |-> {}, author |-> "", message |-> <<>>]

\* history: one more record counted under key k
CountOne(f, k) == IF k \in DOMAIN f THEN [f EXCEPT ![k] = f[k] + 1] ELSE f @@ (k :> 1)

IsEmptyText(m) == m.is_dict /\ ("message" \notin m.keys \/ m.message = <<>>)

NoCurrent ==
    /\ cur_applied' = {}
    /\ cur_classifier_failed' = FALSE
    /\ cur_label' = "none"
    /\ cur_score' = 0

Trackers == <<author_counts, sentiment_counts, message_timestamps, keyword_counts>>
History == <<carried, records, empty_texts>>
Current == <<cur_applied, cur_classifier_failed, cur_label, cur_score>>
Clock == <<now, period>>

TrackersInit ==
    /\ author_counts = <<>>
    /\ sentiment_counts = [l \in Labels |-> 0]
    /\ message_timestamps = <<>>
    /\ keyword_counts = [kw \in Range(keywords) |-> 0]

HistoryInit ==
    /\ delivered = 0
    /\ returned = 0
    /\ carried = <<>>
    /\ records = 0
    /\ empty_texts = 0
    /\ arrivals = <<>>
    /\ scans = 0
    /\ fault_free = TRUE
    /\ cur_applied = {}
    /\ cur_classifier_failed = FALSE
    /\ cur_label = "none"
    /\ cur_score = 0
    /\ exit_reason = "none"

Init ==
    /\ pc = "poll"
    /\ message = NoMessage
    /\ now \in StartTimes
    /\ period \in Periods
    /\ TrackersInit
    /\ HistoryInit

\* main: for message in consumer: process_message(message.value)
Poll ==
    /\ pc = "poll"
    /\ delivered < MaxMsgs
    /\ \E m \in Messages :
        /\ message' = m
        /\ records' = IF m.is_dict THEN records + 1 ELSE records
        /\ carried' = IF ~m.is_dict THEN carried
                      ELSE IF "author" \in m.keys THEN CountOne(carried, m.author)
                      ELSE CountOne(carried, "unknown")
        /\ empty_texts' = IF IsEmptyText(m) THEN empty_texts + 1 ELSE empty_texts
    /\ delivered' = delivered + 1
    /\ pc' = "get_fields"
    /\ UNCHANGED <<Trackers, Clock, returned, arrivals, scans, fault_free,
                   Current, exit_reason>>

\* message.get("author", "unknown"); message.get("message", "")
GetFields ==
    /\ pc = "get_fields"
    /\ IF message.is_dict
       THEN pc' = "author_counts" /\ UNCHANGED fault_free
       ELSE pc' = "except" /\ fault_free' = FALSE
    /\ UNCHANGED <<message, Trackers, Clock, delivered, returned, History,
                   arrivals, scans, Current, exit_reason>>

\* author_counts[author] += 1
UpdateAuthorCounts ==
    /\ pc = "author_counts"
    /\ author_counts' = increment(author_counts, get_author(message))
    /\ cur_applied' = cur_applied \cup {"author"}
    /\ pc' = process_message_next("author_counts")
    /\ UNCHANGED <<message, sentiment_counts, message_timestamps, keyword_counts,
                   Clock, delivered, returned, History, arrivals, scans,
                   fault_free, cur_classifier_failed, cur_label, cur_score,
                   exit_reason>>

\* a chart redraw: reads its tracker, and either completes or raises
Draw(at, then) ==
    /\ pc = at
    /\ \E ok \in BOOLEAN :
        IF ok THEN pc' = then /\ UNCHANGED fault_free
        ELSE pc' = "except" /\ fault_free' = FALSE
    /\ UNCHANGED <<message, Trackers, Clock, delivered, returned, History,
                   arrivals, scans, Current, exit_reason>>

UpdateChart == Draw("update_chart", process_message_next("update_chart"))

\* sentiment = analyze_sentiment(message_text); sentiment_counts[sentiment] += 1
ProcessSentiment ==
    /\ pc = "process_sentiment"
    /\ \E r \in polarity_scores(get_message_text(message)) :
        IF r.ok
        THEN /\ sentiment_counts' = process_sentiment(sentiment_counts, r.score)
             /\ cur_score' = r.score
             /\ cur_label' = analyze_sentiment(r.score)
             /\ cur_applied' = cur_applied \cup {"sentiment"}
             /\ pc' = "update_sentiment_chart"
             /\ UNCHANGED <<fault_free, cur_classifier_failed>>
        ELSE /\ cur_classifier_failed' = TRUE
             /\ fault_free' = FALSE
             /\ pc' = "except"
             /\ UNCHANGED <<sentiment_counts, cur_score, cur_label, cur_applied>>
    /\ UNCHANGED <<message, author_counts, message_timestamps, keyword_counts,
                   Clock, delivered, returned, History, arrivals, scans,
                   exit_reason>>

UpdateSentimentChart ==
    Draw("update_sentiment_chart", process_message_next("process_sentiment"))

\* message_timestamps.append(time.time())
ProcessMessageVolume ==
    /\ pc = "process_message_volume"
    /\ message_timestamps' = deque_append(message_timestamps, now)
    /\ arrivals' = Append(arrivals, now)
    /\ now' = now + period
    /\ cur_applied' = cur_applied \cup {"volume"}
    /\ pc' = "update_message_volume"
    /\ UNCHANGED <<message, author_counts, sentiment_counts, keyword_counts,
                   period, delivered, returned, History, scans, fault_free,
                   cur_classifier_failed, cur_label, cur_score, exit_reason>>

UpdateMessageVolume ==
    Draw("update_message_volume", process_message_next("process_message_volume"))

\* for keyword in keywords: if re.search(...): keyword_counts[keyword] += 1
ProcessKeywords ==
    /\ pc = "process_keywords"
    /\ keyword_counts' = process_keywords(keyword_counts, get_message_text(message))
    /\ scans' = scans + 1
    /\ cur_applied' = cur_applied \cup {"keywords"}
    /\ pc' = "update_keyword_chart"
    /\ UNCHANGED <<message, author_counts, sentiment_counts, message_timestamps,
                   Clock, delivered, returned, History, arrivals, fault_free,
                   cur_classifier_failed, cur_label, cur_score, exit_reason>>

UpdateKeywordChart ==
    Draw("update_keyword_chart", process_message_next("process_keywords"))

\* except Exception as e: logger.error(f"Error processing message: {e}")
Except ==
    /\ pc = "except"
    /\ pc' = process_message_except
    /\ UNCHANGED <<message, Trackers, Clock, delivered, returned, History,
                   arrivals, scans, fault_free, Current, exit_reason>>

\* process_message returns; main's loop asks the consumer for the next message
Return ==
    /\ pc = "return"
    /\ returned' = returned + 1
    /\ message' = NoMessage
    /\ NoCurrent
    /\ pc' = "poll"
    /\ UNCHANGED <<Trackers, Clock, delivered, History, arrivals, scans,
                   fault_free, exit_reason>>

InLoop == pc \notin {"interrupt", "propagate", "closed"}

\* the user presses Ctrl-C: KeyboardInterrupt is no Exception, so it passes
\* process_message's except clause
Interrupt ==
    /\ InLoop
    /\ pc' = "interrupt"
    /\ UNCHANGED <<message, Trackers, Clock, delivered, returned, History,
                   arrivals, scans, fault_free, Current, exit_reason>>

\* main's except KeyboardInterrupt / except Exception, then finally: close
MainExit ==
    /\ pc \in {"interrupt", "propagate"}
    /\ exit_reason' = IF pc = "interrupt" THEN "KeyboardInterrupt" ELSE "Exception"
    /\ pc' = "closed"
    /\ UNCHANGED <<message, Trackers, Clock, delivered, returned, History,
                   arrivals, scans, fault_free, Current>>

Next ==
    \/ Poll
    \/ GetFields
    \/ UpdateAuthorCounts
    \/ UpdateChart
    \/ ProcessSentiment
    \/ UpdateSentimentChart
    \/ ProcessMessageVolume
    \/ UpdateMessageVolume
    \/ ProcessKeywords
    \/ UpdateKeywordChart
    \/ Except
    \/ Return
    \/ Interrupt
    \/ MainExit

Spec == Init /\ [][Next]_vars

(***************************************************************************)
(* SpecSentiment: process_sentiment applied to every compound score.       *)
(***************************************************************************)
InitSentiment ==
    /\ pc = "score"
    /\ message = NoMessage
    /\ now = 0
    /\ period = 0
    /\ TrackersInit
    /\ HistoryInit

ScoreText ==
    /\ pc = "score"
    /\ \E s \in CompoundScores :
        /\ cur_score' = s
        /\ cur_label' = analyze_sentiment(s)
        /\ sentiment_counts' = process_sentiment(sentiment_counts, s)
    /\ pc' = "scored"
    /\ UNCHANGED <<message, author_counts, message_timestamps, keyword_counts,
                   Clock, delivered, returned, History, arrivals, scans,
                   fault_free, cur_applied, cur_classifier_failed, exit_reason>>

NextScore ==
    /\ pc = "scored"
    /\ Total(sentiment_counts) < MaxScores
    /\ NoCurrent
    /\ pc' = "score"
    /\ UNCHANGED <<message, Trackers, Clock, delivered, returned, History,
                   arrivals, scans, fault_free, exit_reason>>

NextSentiment == ScoreText \/ NextScore

SpecSentiment == InitSentiment /\ [][NextSentiment]_vars

(***************************************************************************)
(* SpecVolume: process_message_volume applied MaxAppends times.            *)
(***************************************************************************)
InitVolume ==
    /\ pc = "volume"
    /\ message = NoMessage
    /\ now \in StartTimes
    /\ period \in Periods
    /\ TrackersInit
    /\ HistoryInit

AppendTimestamp ==
    /\ pc = "volume"
    /\ Len(arrivals) < MaxAppends
    /\ message_timestamps' = deque_append(message_timestamps, now)
    /\ arrivals' = Append(arrivals, now)
    /\ now' = now + period
    /\ UNCHANGED <<pc, message, author_counts, sentiment_counts, keyword_counts,
                   period, delivered, returned, History, scans, fault_free,
                   Current, exit_reason>>

SpecVolume == InitVolume /\ [][AppendTimestamp]_vars

(***************************************************************************)
(* SpecKeywords: process_keywords applied to texts built from pieces.      *)
(***************************************************************************)
Pieces ==
    {W_Python, <<"p","y","t","h","o","n">>, W_Kafka, W_JSON,
     <<"j","s","o","n">>, W_Pythonic, <<" ">>, <<"-">>, <<"_">>, <<"3">>}

ScanTexts == {Cat(ps) : ps \in SeqsUpTo(Pieces, MaxPieces)}

TextMessage(t) == [is_dict |-> TRUE, keys |-> {"message"}, author |-> "", message |-> t]

InitKeywords ==
    /\ pc = "scan"
    /\ message \in {TextMessage(t) : t \in ScanTexts}
    /\ now = 0
    /\ period = 0
    /\ TrackersInit
    /\ HistoryInit

ScanText ==
    /\ pc = "scan"
    /\ keyword_counts' = process_keywords(keyword_counts, get_message_text(message))
    /\ scans' = scans + 1
    /\ pc' = "scanned"
    /\ UNCHANGED <<message, author_counts, sentiment_counts, message_timestamps,
                   Clock, delivered, returned, History, arrivals, fault_free,
                   Current, exit_reason>>

\* process_message returns and its message goes out of scope
ScanReturn ==
    /\ pc = "scanned"
    /\ message' = NoMessage
    /\ pc' = "next"
    /\ UNCHANGED <<Trackers, Clock, delivered, returned, History, arrivals,
                   scans, fault_free, Current, exit_reason>>

NextText ==
    /\ pc = "next"
    /\ scans < MaxScans
    /\ message' \in {TextMessage(t) : t \in ScanTexts}
    /\ pc' = "scan"
    /\ UNCHANGED <<Trackers, Clock, delivered, returned, History, arrivals,
                   scans, fault_free, Current, exit_reason>>

NextKeywords == ScanText \/ ScanReturn \/ NextText

SpecKeywords == InitKeywords /\ [][NextKeywords]_vars

(***************************************************************************)
(* Properties.                                                             *)
(***************************************************************************)
ReadPoints ==
    {"update_chart", "update_sentiment_chart", "update_message_volume",
     "update_keyword_chart"}

AllTrackers == {"author", "sentiment", "volume", "keywords"}

\* C1: wherever tracker state is read (a chart draw), the four trackers
\* reflect the same set of records: the record being processed has been
\* applied to all of them or to none of them.
C1_NoPartialRead ==
    pc \in ReadPoints => cur_applied \in {{}, AllTrackers}

\* C2: once every delivered record has been ingested, and no step has
\* faulted, the three sentiment tallies sum to the number of records minus
\* the number of empty-text records.
C2_SentimentSumSkipsEmpty ==
    (pc = "poll" /\ fault_free) =>
        Total(sentiment_counts) = returned - empty_texts

\* C3: when the classifier fails on a record, the record is tallied as
\* Neutral and its volume append and keyword scan are still applied.
C3_ClassifierFailureIsNeutral ==
    (pc = "return" /\ cur_classifier_failed) =>
        /\ cur_label = "Neutral"
        /\ {"volume", "keywords"} \subseteq cur_applied

\* C4: no fault inside process_message reaches main: main never leaves its
\* loop through `except Exception`, and whenever it asks for the next
\* message every earlier call of process_message has returned normally.
C4_NeverFailsCaller ==
    /\ pc # "propagate"
    /\ exit_reason # "Exception"
    /\ pc = "poll" => returned = delivered

\* a step faulted in the first record and main went on to the second
C4_Witness ==
    /\ ~fault_free
    /\ returned = 1
    /\ delivered = 2
    /\ pc = "get_fields"

RECURSIVE SumCounts(_)
SumCounts(buckets) ==
    IF buckets = <<>> THEN 0 ELSE Head(buckets).count + SumCounts(Tail(buckets))

\* C5: after n volume updates the window holds exactly the min(n, 100) most
\* recent arrival timestamps in arrival order, so the per-minute counts
\* total at most 100 and there are at most 100 buckets.
C5_BoundedWindow ==
    LET n == Len(arrivals)
        k == Min(n, maxlen)
        buckets == update_message_volume(message_timestamps)
    IN /\ message_timestamps = SubSeq(arrivals, n - k + 1, n)
       /\ SumCounts(buckets) = k
       /\ SumCounts(buckets) <= maxlen
       /\ Len(buckets) <= maxlen

\* more than 100 arrivals: the oldest have been evicted, oldest first
C5_Witness ==
    /\ Len(arrivals) = maxlen + 2
    /\ Len(message_timestamps) = maxlen
    /\ message_timestamps[1] = arrivals[3]
    /\ message_timestamps[maxlen] = arrivals[maxlen + 2]

RECURSIVE Tokenize(_, _, _)
\* the words of text from index i on, case folded: its maximal runs of word
\* characters; `word` is the run that ends just before i
Tokenize(text, i, word) ==
    LET done == IF word = <<>> THEN {} ELSE {word}
    IN IF i > Len(text) THEN done
       ELSE IF IsWordChar(text[i])
            THEN Tokenize(text, i + 1, Append(word, Lower(text[i])))
            ELSE done \cup Tokenize(text, i + 1, <<>>)

FoldCase(w) == [i \in DOMAIN w |-> Lower(w[i])]

\* the keyword is one of the words of the text, compared ignoring case
OccursAsWord(keyword, text) == FoldCase(keyword) \in Tokenize(text, 1, <<>>)

\* C6: one scan adds exactly 1 to a keyword's count if the keyword is a
\* whole word of the text, compared case-insensitively, and 0 otherwise.
C6_WholeWordIncrement ==
    [][(pc = "scan" /\ pc' = "scanned") =>
          \A kw \in Range(keywords) :
              keyword_counts'[kw] =
                  keyword_counts[kw] +
                  IF OccursAsWord(kw, get_message_text(message)) THEN 1 ELSE 0]_vars

\* "Pythonic Python" scanned: Python counted once, Kafka and JSON not
C6_Witness ==
    /\ pc = "scanned"
    /\ message.message = W_Pythonic \o <<" ">> \o W_Python
    /\ keyword_counts[W_Python] = 1
    /\ keyword_counts[W_Kafka] = 0
    /\ keyword_counts[W_JSON] = 0

\* C7: volume buckets are listed in strictly increasing key order, that
\* order is the chronological order of the arrivals they count, and two
\* arrivals share a bucket only if they fall in the same minute of the
\* same day.
C7_ChronologicalBuckets ==
    LET ts == message_timestamps
        buckets == update_message_volume(ts)
        In(i, b) == strftime_HM(ts[i]) = buckets[b].bucketKey
    IN /\ \A a, b \in DOMAIN buckets :
              a < b => KeyLess(buckets[a].bucketKey, buckets[b].bucketKey)
       /\ \A a, b \in DOMAIN buckets : \A i, j \in DOMAIN ts :
              (a < b /\ In(i, a) /\ In(j, b)) => ts[i] <= ts[j]
       /\ \A i, j \in DOMAIN ts :
              strftime_HM(ts[i]) = strftime_HM(ts[j]) =>
                  ts[i] \div 60 = ts[j] \div 60

\* C8: once the author step of every delivered record has run, each
\* author's count is the number of records delivered with that author
\* ("unknown" for a record without the field), an author has an entry
\* exactly when a record carried it, and the counts sum to the number of
\* records.
C8_AuthorCountsExact ==
    (pc = "poll" \/ "author" \in cur_applied) =>
        /\ author_counts = carried
        /\ Total(author_counts) = records

\* two records ingested, one without an author, one faulted after its
\* author step
C8_Witness ==
    /\ pc = "poll"
    /\ returned = 2
    /\ ~fault_free
    /\ author_counts = ("unknown" :> 1) @@ ("Eve" :> 1)

\* C9: the label is Positive for a score >= 0.05, Negative for a score
\* <= -0.05 and Neutral strictly in between, and process_sentiment adds 1
\* to that label's tally and nothing to the others.
C9_ThresholdRule ==
    [][(pc = "score" /\ pc' = "scored") =>
          /\ cur_score' >= 500 => cur_label' = "Positive"
          /\ cur_score' <= -500 => cur_label' = "Negative"
          /\ (-500 < cur_score' /\ cur_score' < 500) => cur_label' = "Neutral"
          /\ sentiment_counts' =
                 [l \in Labels |->
                     sentiment_counts[l] + IF l = cur_label' THEN 1 ELSE 0]]_vars

\* a score of exactly 0.05, then one of exactly -0.05
C9_Witness ==
    /\ pc = "scored"
    /\ cur_score = -500
    /\ sentiment_counts = [Positive |-> 1, Neutral |-> 0, Negative |-> 1]

AppliedPrefixes ==
    {{}, {"author"}, {"author", "sentiment"}, {"author", "sentiment", "volume"},
     AllTrackers}

NoCountDecreases ==
    /\ \A a \in DOMAIN author_counts :
          a \in DOMAIN author_counts' /\ author_counts'[a] >= author_counts[a]
    /\ \A l \in Labels : sentiment_counts'[l] >= sentiment_counts[l]
    /\ Len(arrivals') >= Len(arrivals)
    /\ scans' >= scans
    /\ \A kw \in Range(keywords) : keyword_counts'[kw] >= keyword_counts[kw]

\* C10: a record's trackers are updated in the order author, sentiment,
\* volume, keywords; a fault skips the later ones and undoes nothing; so
\* author total >= sentiment total >= timestamps ever appended >= completed
\* keyword scans in every state, and no count ever decreases.
C10_OrderedUpdates ==
    /\ [](/\ cur_applied \in AppliedPrefixes
          /\ Total(author_counts) >= Total(sentiment_counts)
          /\ Total(sentiment_counts) >= Len(arrivals)
          /\ Len(arrivals) >= scans)
    /\ [][/\ NoCountDecreases
          /\ pc = "except" => UNCHANGED Trackers]_vars

\* first record faulted at the author chart, second at the sentiment chart
C10_Witness ==
    /\ pc = "poll"
    /\ returned = 2
    /\ Total(author_counts) = 2
    /\ Total(sentiment_counts) = 1
    /\ Len(arrivals) = 0

====
